---- MODULE Spec2Model ----
(***************************************************************************)
(* Residual blocks of distar/ctools/torch_utils/network/res_block.py:      *)
(* ResBlock (two conv2d_block sub-blocks), ResFCBlock and ResFCBlock2 (two *)
(* fc_block sub-blocks), their constructors and their forward passes.      *)
(*                                                                         *)
(* Objects live on a heap (a sequence, the index is the object identity).  *)
(* A tensor is a shape together with the expression that produced its      *)
(* data, written in postfix as a sequence of tokens: the convolution,      *)
(* linear and normalization kernels belong to torch and are kept as        *)
(* uninterpreted operators named by the object that owns their weights,    *)
(* while the identity operator is modelled by what it does (it returns its *)
(* argument).  Two tensors with the same token sequence are the same       *)
(* value; the token sequence is also the order in which the operators ran. *)
(***************************************************************************)
EXTENDS Integers, Sequences, FiniteSets, TLC

\* Bounds of the model.
MaxChannels == 2
MaxBatch == 2
MaxSize == 2
MaxBlocks == 2
MaxTrain == 1

VARIABLES args, heap, blocks, call

vars == <<args, heap, blocks, call>>

Null == 0

(***************************************************************************)
(* Tensors                                                                 *)
(***************************************************************************)
Tok(op, id, w) == [op |-> op, id |-> id, w |-> w]

XTok == Tok("x", Null, 0)

AddTok == Tok("add", Null, 0)

Tensor(shape, data) == [ok |-> TRUE, shape |-> shape, data |-> data]

\* The result of an operator that raised.
ErrTensor == [ok |-> FALSE, shape |-> <<>>, data |-> <<>>]

\* Placeholder of a call that has no tensor argument or result.
NoTensor == [ok |-> FALSE, shape |-> <<>>, data |-> <<>>]

Max(a, b) == IF a >= b THEN a ELSE b

\* x + residual (torch broadcasting of two tensors of equal rank).
Broadcastable(s, t) ==
    /\ Len(s) = Len(t)
    /\ \A i \in 1..Len(s) : s[i] = t[i] \/ s[i] = 1 \/ t[i] = 1

TensorAdd(a, b) ==
    IF a.ok /\ b.ok /\ Broadcastable(a.shape, b.shape)
    THEN Tensor([i \in 1..Len(a.shape) |-> Max(a.shape[i], b.shape[i])],
                a.data \o b.data \o <<AddTok>>)
    ELSE ErrTensor

(***************************************************************************)
(* Heap objects: activation modules, conv2d_block / fc_block sub-blocks    *)
(* and normalization operators.                                            *)
(***************************************************************************)
Obj(kind, cin, cout, kernel, stride, padding, act, norm, w) ==
    [kind |-> kind, cin |-> cin, cout |-> cout, kernel |-> kernel,
     stride |-> stride, padding |-> padding, act |-> act, norm |-> norm, w |-> w]

\* An activation module: nn.ReLU() or nn.Identity().
ActModule(kind) == Obj(kind, 0, 0, 0, 0, 0, Null, "None", 0)

Trainable(o) == o.kind \in {"conv2d_block", "fc_block", "norm"}

\* activation(x) for the module at heap address a.
ApplyAct(h, a, t) ==
    IF ~t.ok THEN ErrTensor
    ELSE IF h[a].kind = "Identity" THEN t
    ELSE Tensor(t.shape, Append(t.data, Tok(h[a].kind, a, 0)))

\* nn_module.conv2d_block: the sub-block object (convolution, then the
\* optional normalization, then the optional activation).
conv2d_block(in_channels, out_channels, kernel_size, stride, padding, activation, norm_type) ==
    Obj("conv2d_block", in_channels, out_channels, kernel_size, stride, padding,
        activation, norm_type, 0)

\* nn_module.fc_block: linear transform, optional normalization, optional activation.
fc_block(in_channels, out_channels, activation, norm_type) ==
    Obj("fc_block", in_channels, out_channels, 0, 0, 0, activation, norm_type, 0)

\* normalization.build_normalization(norm_type)(num_features).
build_normalization(norm_type, num_features) ==
    Obj("norm", num_features, num_features, 0, 0, 0, Null, norm_type, 0)

\* Output extent of a convolution along one spatial axis.
ConvOut(n, k, s, p) == ((n + 2 * p - k) \div s) + 1

\* The normalization and activation stages shared by both sub-block kinds.
NormAct(h, id, t) ==
    LET o == h[id]
        n == IF o.norm = "None" THEN t
             ELSE Tensor(t.shape, Append(t.data, Tok(o.norm, id, o.w)))
    IN  IF o.act = Null THEN n ELSE ApplyAct(h, o.act, n)

\* Calling the conv2d_block at heap address id on t.
ApplyConv(h, id, t) ==
    LET o == h[id] IN
    IF ~t.ok \/ Len(t.shape) # 4 THEN ErrTensor
    ELSE IF \/ t.shape[2] # o.cin
            \/ t.shape[3] + 2 * o.padding < o.kernel
            \/ t.shape[4] + 2 * o.padding < o.kernel
         THEN ErrTensor
    ELSE NormAct(h, id,
             Tensor(<<t.shape[1], o.cout,
                      ConvOut(t.shape[3], o.kernel, o.stride, o.padding),
                      ConvOut(t.shape[4], o.kernel, o.stride, o.padding)>>,
                    Append(t.data, Tok("conv", id, o.w))))

\* Calling the fc_block at heap address id on t.
ApplyFC(h, id, t) ==
    LET o == h[id] IN
    IF ~t.ok \/ Len(t.shape) # 2 THEN ErrTensor
    ELSE IF t.shape[2] # o.cin THEN ErrTensor
    ELSE NormAct(h, id,
             Tensor(<<t.shape[1], o.cout>>, Append(t.data, Tok("fc", id, o.w))))

\* Calling the normalization operator at heap address id on t.
ApplyNorm(h, id, t) ==
    LET o == h[id] IN
    IF ~t.ok \/ Len(t.shape) # 2 THEN ErrTensor
    ELSE IF t.shape[2] # o.cin THEN ErrTensor
    ELSE Tensor(t.shape, Append(t.data, Tok(o.norm, id, o.w)))

(***************************************************************************)
(* Block instances                                                         *)
(***************************************************************************)
\* act is self.act, res_type is self.res_type (ResBlock only), t1 and t2 are
\* self.conv1 and self.conv2 (ResBlock) or self.fc1 and self.fc2 (the
\* fully-connected blocks), norm is self.norm (ResFCBlock2 only).
Block(cls, act, res_type, t1, t2, norm) ==
    [cls |-> cls, act |-> act, res_type |-> res_type, t1 |-> t1, t2 |-> t2, norm |-> norm]

NoBlock == Block("none", Null, "none", Null, Null, Null)

\* The default activation of each constructor: nn.ReLU() is evaluated once,
\* when the def statement runs, and lives at a fixed heap address.
DefaultActResBlock == 1

DefaultActResFCBlock == 2

DefaultActResFCBlock2 == 3

DefaultNormResBlock == "BN"

DefaultNormResFCBlock == "BN"

DefaultNormResFCBlock2 == "LN"

ValidResTypes == {"basic", "bottleneck"}

\* ---- ResBlock ----
\* Variant: the second convolution built without padding.
ResBlock_conv2_nopad(in_channels, act, norm_type) ==
    conv2d_block(in_channels, in_channels, 3, 1, 0, Null, norm_type)

\* Variant: the second convolution built with the block's activation.
ResBlock_conv2_act(in_channels, act, norm_type) ==
    conv2d_block(in_channels, in_channels, 3, 1, 1, act, norm_type)

\* The two sub-blocks of ResBlock.__init__; act is self.act, which is in
\* scope for both and passed to the first only.
ResBlock_conv1(in_channels, act, norm_type) ==
    conv2d_block(in_channels, in_channels, 3, 1, 1, act, norm_type)

ResBlock_conv2(in_channels, act, norm_type) ==
    conv2d_block(in_channels, in_channels, 3, 1, 1, Null, norm_type)

\* Variant: the constructor without its check of res_type.
ResBlock_init_unchecked(h, in_channels, activation, norm_type, res_type) ==
    LET h1 == Append(h, conv2d_block(in_channels, in_channels, 3, 1, 1, activation, norm_type))
        h2 == Append(h1, conv2d_block(in_channels, in_channels, 3, 1, 1, Null, norm_type))
    IN  [raised |-> "none",
         self |-> Block("ResBlock", activation, res_type, Len(h1), Len(h2), Null),
         heap |-> h2]

\* ResBlock.__init__: [raised, self, heap].
ResBlock_init(h, in_channels, activation, norm_type, res_type) ==
    IF res_type \notin ValidResTypes
    THEN [raised |-> "AssertionError", self |-> NoBlock, heap |-> h]
    ELSE LET h1 == Append(h, ResBlock_conv1(in_channels, activation, norm_type))
             h2 == Append(h1, ResBlock_conv2(in_channels, activation, norm_type))
         IN  [raised |-> "none",
              self |-> Block("ResBlock", activation, res_type, Len(h1), Len(h2), Null),
              heap |-> h2]

\* Variant: the skip connection taken after the first convolution.
ResBlock_forward_late_skip(h, self, x) ==
    LET x1 == ApplyConv(h, self.t1, x)
        residual == x1
        x2 == ApplyConv(h, self.t2, x1)
        x3 == ApplyAct(h, self.act, TensorAdd(x2, residual))
    IN  [ret |-> x3, self |-> self]

\* Variant: forward rebinds an attribute of the block (conv1 := conv2).
ResBlock_forward_rebind(h, self, x) ==
    LET residual == x
        x1 == ApplyConv(h, self.t1, x)
        x2 == ApplyConv(h, self.t2, x1)
        x3 == ApplyAct(h, self.act, TensorAdd(x2, residual))
    IN  [ret |-> x3, self |-> [self EXCEPT !.t1 = self.t2]]

\* Variant: forward reads res_type and runs one convolution for bottleneck.
ResBlock_forward_tagged(h, self, x) ==
    LET residual == x
        x1 == ApplyConv(h, self.t1, x)
        x2 == IF self.res_type = "bottleneck" THEN x1 ELSE ApplyConv(h, self.t2, x1)
        x3 == ApplyAct(h, self.act, TensorAdd(x2, residual))
    IN  [ret |-> x3, self |-> self]

\* ResBlock.forward: [ret, self].
ResBlock_forward(h, self, x) ==
    LET residual == x
        x1 == ApplyConv(h, self.t1, x)
        x2 == ApplyConv(h, self.t2, x1)
        x3 == ApplyAct(h, self.act, TensorAdd(x2, residual))
    IN  [ret |-> x3, self |-> self]

\* ---- ResFCBlock ----
ResFCBlock_fc1(in_channels, act, norm_type) ==
    fc_block(in_channels, in_channels, act, norm_type)

ResFCBlock_fc2(in_channels, act, norm_type) ==
    fc_block(in_channels, in_channels, Null, norm_type)

ResFCBlock_init(h, in_channels, activation, norm_type) ==
    LET h1 == Append(h, ResFCBlock_fc1(in_channels, activation, norm_type))
        h2 == Append(h1, ResFCBlock_fc2(in_channels, activation, norm_type))
    IN  [raised |-> "none",
         self |-> Block("ResFCBlock", activation, "none", Len(h1), Len(h2), Null),
         heap |-> h2]

\* Variant: no skip connection.
ResFCBlock_forward_noskip(h, self, x) ==
    LET x1 == ApplyFC(h, self.t1, x)
        x2 == ApplyFC(h, self.t2, x1)
        x3 == ApplyAct(h, self.act, x2)
    IN  [ret |-> x3, self |-> self]

ResFCBlock_forward(h, self, x) ==
    LET residual == x
        x1 == ApplyFC(h, self.t1, x)
        x2 == ApplyFC(h, self.t2, x1)
        x3 == ApplyAct(h, self.act, TensorAdd(x2, residual))
    IN  [ret |-> x3, self |-> self]

\* ---- ResFCBlock2 ----
ResFCBlock2_fc1(in_channels, act, norm_type) ==
    fc_block(in_channels, in_channels, act, "None")

\* Variant: the second linear transform doubles the feature count.
ResFCBlock2_fc2_wide(in_channels, act, norm_type) ==
    fc_block(in_channels, 2 * in_channels, Null, "None")

ResFCBlock2_fc2(in_channels, act, norm_type) ==
    fc_block(in_channels, in_channels, Null, "None")

ResFCBlock2_init(h, in_channels, activation, norm_type) ==
    LET h1 == Append(h, ResFCBlock2_fc1(in_channels, activation, norm_type))
        h2 == Append(h1, ResFCBlock2_fc2(in_channels, activation, norm_type))
        h3 == Append(h2, build_normalization(norm_type, in_channels))
    IN  [raised |-> "none",
         self |-> Block("ResFCBlock2", activation, "none", Len(h1), Len(h2), Len(h3)),
         heap |-> h3]

\* Variant: the activation applied to the normalized sum, as in ResFCBlock.
ResFCBlock2_forward_act(h, self, x) ==
    LET residual == x
        x1 == ApplyFC(h, self.t1, x)
        x2 == ApplyFC(h, self.t2, x1)
        x3 == ApplyAct(h, self.act, ApplyNorm(h, self.norm, TensorAdd(x2, residual)))
    IN  [ret |-> x3, self |-> self]

ResFCBlock2_forward(h, self, x) ==
    LET residual == x
        x1 == ApplyFC(h, self.t1, x)
        x2 == ApplyFC(h, self.t2, x1)
        x3 == ApplyNorm(h, self.norm, TensorAdd(x2, residual))
    IN  [ret |-> x3, self |-> self]

(***************************************************************************)
(* The caller: constructions, forward passes, training steps.              *)
(***************************************************************************)
ActivationArgs == {"default", "ReLU", "Identity"}

NormArgs == {"default", "None", "BN"}

ResTypeArgs == {"basic", "bottleneck", "invalid", "BASIC"}

\* The construction parameters a caller stacks blocks with.
ArgSets == [in_channels : 1..MaxChannels, activation : ActivationArgs, norm_type : NormArgs]

Inputs4 ==
    {Tensor(<<b, c, hh, ww>>, <<XTok>>) :
        b \in 1..MaxBatch, c \in 1..MaxChannels, hh \in 1..MaxSize, ww \in 1..MaxSize}

Inputs2 == {Tensor(<<b, c>>, <<XTok>>) : b \in 1..MaxBatch, c \in 1..MaxChannels}

Call(op, blk, tag, raised, x, ret) ==
    [op |-> op, blk |-> blk, tag |-> tag, raised |-> raised, x |-> x, ret |-> ret]

Raised(t) == IF t.ok THEN "none" ELSE "RuntimeError"

\* The heap after the caller has evaluated its activation argument: an
\* explicit argument is a new module, the default is the constructor's own.
HeapWithAct(h, a) == IF a = "default" THEN h ELSE Append(h, ActModule(a))

ActAddr(h, a, dflt) == IF a = "default" THEN dflt ELSE Len(h) + 1

NormArg(n, dflt) == IF n = "default" THEN dflt ELSE n

Constructed(op, tag, r) ==
    /\ heap' = IF r.raised = "none" THEN r.heap ELSE heap
    /\ blocks' = IF r.raised = "none" THEN Append(blocks, r.self) ELSE blocks
    /\ call' = Call(op, IF r.raised = "none" THEN Len(blocks) + 1 ELSE 0, tag,
                    r.raised, NoTensor, NoTensor)
    /\ UNCHANGED args

NewResBlock(limit, res_type) ==
    /\ Len(blocks) < limit
    /\ Constructed("ResBlock.__init__", res_type,
           ResBlock_init(HeapWithAct(heap, args.activation), args.in_channels,
                         ActAddr(heap, args.activation, DefaultActResBlock),
                         NormArg(args.norm_type, DefaultNormResBlock), res_type))

NewResFCBlock(limit) ==
    /\ Len(blocks) < limit
    /\ Constructed("ResFCBlock.__init__", "none",
           ResFCBlock_init(HeapWithAct(heap, args.activation), args.in_channels,
                           ActAddr(heap, args.activation, DefaultActResFCBlock),
                           NormArg(args.norm_type, DefaultNormResFCBlock)))

NewResFCBlock2(limit) ==
    /\ Len(blocks) < limit
    /\ args.norm_type # "None"
    /\ Constructed("ResFCBlock2.__init__", "none",
           ResFCBlock2_init(HeapWithAct(heap, args.activation), args.in_channels,
                            ActAddr(heap, args.activation, DefaultActResFCBlock2),
                            NormArg(args.norm_type, DefaultNormResFCBlock2)))

Forwarded(op, b, x, r) ==
    /\ blocks' = [blocks EXCEPT ![b] = r.self]
    /\ call' = Call(op, b, blocks[b].res_type, Raised(r.ret), x, r.ret)
    /\ UNCHANGED <<args, heap>>

ForwardResBlock(b, x) ==
    /\ blocks[b].cls = "ResBlock"
    /\ Forwarded("ResBlock.forward", b, x, ResBlock_forward(heap, blocks[b], x))

ForwardResFCBlock(b, x) ==
    /\ blocks[b].cls = "ResFCBlock"
    /\ Forwarded("ResFCBlock.forward", b, x, ResFCBlock_forward(heap, blocks[b], x))

ForwardResFCBlock2(b, x) ==
    /\ blocks[b].cls = "ResFCBlock2"
    /\ Forwarded("ResFCBlock2.forward", b, x, ResFCBlock2_forward(heap, blocks[b], x))

\* One step of the external training procedure: every trainable parameter
\* of every constructed sub-block gets a new value.
TrainStep ==
    /\ blocks # <<>>
    /\ \A i \in 1..Len(heap) : heap[i].w < MaxTrain
    /\ heap' = [i \in 1..Len(heap) |->
                   IF Trainable(heap[i]) THEN [heap[i] EXCEPT !.w = @ + 1] ELSE heap[i]]
    /\ call' = Call("train", 0, "none", "none", NoTensor, NoTensor)
    /\ UNCHANGED <<args, blocks>>

Init ==
    /\ args \in ArgSets
    /\ heap = <<ActModule("ReLU"), ActModule("ReLU"), ActModule("ReLU")>>
    /\ blocks = <<>>
    /\ call = Call("none", 0, "none", "none", NoTensor, NoTensor)

\* One block: it is constructed, invoked on any input any number of times,
\* and trained by the external procedure in between.
Next ==
    \/ \E t \in ResTypeArgs : NewResBlock(1, t)
    \/ NewResFCBlock(1)
    \/ NewResFCBlock2(1)
    \/ \E b \in 1..Len(blocks) : \E x \in Inputs4 : ForwardResBlock(b, x)
    \/ \E b \in 1..Len(blocks) : \E x \in Inputs2 : ForwardResFCBlock(b, x)
    \/ \E b \in 1..Len(blocks) : \E x \in Inputs2 : ForwardResFCBlock2(b, x)
    \/ TrainStep

Spec == Init /\ [][Next]_vars

\* A stack of blocks built from the same construction parameters, each
\* invoked on inputs of the stack's channel count.
StackInputs4 == {x \in Inputs4 : x.shape[1] = MaxBatch /\ x.shape[2] = args.in_channels}

StackInputs2 == {x \in Inputs2 : x.shape[1] = MaxBatch /\ x.shape[2] = args.in_channels}

NextStack ==
    \/ \E t \in ResTypeArgs : NewResBlock(MaxBlocks, t)
    \/ NewResFCBlock(MaxBlocks)
    \/ NewResFCBlock2(MaxBlocks)
    \/ \E b \in 1..Len(blocks) : \E x \in StackInputs4 : ForwardResBlock(b, x)
    \/ \E b \in 1..Len(blocks) : \E x \in StackInputs2 : ForwardResFCBlock(b, x)
    \/ \E b \in 1..Len(blocks) : \E x \in StackInputs2 : ForwardResFCBlock2(b, x)

SpecStack == Init /\ [][NextStack]_vars

\* The operator objects a block instance holds.
Held(b) == {b.act, b.t1, b.t2, b.norm} \ {Null}

\* The construction-time configuration of the sub-block at heap address id,
\* with the kind of its activation in place of the activation's address.
SubConfig(h, id) ==
    <<h[id].kind, h[id].cin, h[id].cout, h[id].kernel, h[id].stride, h[id].padding,
      h[id].norm, IF h[id].act = Null THEN "None" ELSE h[h[id].act].kind>>

(***************************************************************************)
(* Properties                                                              *)
(***************************************************************************)
IsForward(c) == c.op \in {"ResBlock.forward", "ResFCBlock.forward", "ResFCBlock2.forward"}

\* The operators of a tensor's expression, in the order they ran.
Kinds(data) == [i \in 1..Len(data) |-> data[i].op]

\* The block the last call was made on.
Self == blocks[call.blk]

\* C1: ResBlock.__init__ with a res_type other than 'basic' and 'bottleneck'
\* raises at construction: no block is produced and no convolution sub-block
\* is built, so no forward pass ever runs on a block with such a tag; with
\* 'basic' or 'bottleneck' it does not raise and produces the block.
C1_InvalidResTypeRaises ==
    [][ /\ call'.op = "ResBlock.__init__" =>
              IF call'.tag \in {"basic", "bottleneck"}
              THEN /\ call'.raised = "none"
                   /\ Len(blocks') = Len(blocks) + 1
                   /\ blocks'[Len(blocks')].res_type = call'.tag
              ELSE /\ call'.raised = "AssertionError"
                   /\ blocks' = blocks
                   /\ heap' = heap
        /\ \A i \in 1..Len(blocks') :
              blocks'[i].cls = "ResBlock" => blocks'[i].res_type \in {"basic", "bottleneck"}
        /\ call'.op = "ResBlock.forward" => call'.tag \in {"basic", "bottleneck"}
      ]_vars

C1_Witness ==
    /\ call.op = "ResBlock.__init__"
    /\ call.tag = "invalid"
    /\ call.raised = "AssertionError"
    /\ blocks = <<>>

\* C2: ResBlock.forward on an input [B, C, H, W] whose channel count is the
\* block's returns, without raising, a tensor of shape [B, C, H, W]; both
\* convolutions are 3x3, stride 1, padding 1, with C input and C output channels.
C2_ResBlockKeepsShape ==
    (call.op = "ResBlock.forward" /\ call.x.shape[2] = args.in_channels) =>
        /\ call.raised = "none"
        /\ call.ret.shape = call.x.shape
        /\ \A c \in {Self.t1, Self.t2} :
              <<heap[c].cin, heap[c].cout, heap[c].kernel, heap[c].stride, heap[c].padding>>
                  = <<args.in_channels, args.in_channels, 3, 1, 1>>

C2_Witness ==
    /\ call.op = "ResBlock.forward"
    /\ call.x.shape = <<MaxBatch, args.in_channels, 1, MaxSize>>
    /\ call.ret.shape = call.x.shape

\* C3: ResFCBlock.forward and ResFCBlock2.forward on an input [B, C] whose
\* feature count is the block's return, without raising, a tensor of shape [B, C].
C3_FCBlocksKeepShape ==
    (call.op \in {"ResFCBlock.forward", "ResFCBlock2.forward"}
        /\ call.x.shape[2] = args.in_channels) =>
        /\ call.raised = "none"
        /\ call.ret.shape = call.x.shape

C3_Witness ==
    /\ call.op = "ResFCBlock2.forward"
    /\ call.x.shape = <<MaxBatch, args.in_channels>>
    /\ call.ret.shape = call.x.shape

\* C4: with the identity as activation and no normalization, the result of
\* ResBlock.forward is conv2(conv1(x)) + x, x being the forward's own input.
C4_ResBlockSkipWiring ==
    (call.op = "ResBlock.forward" /\ call.raised = "none"
        /\ args.activation = "Identity" /\ args.norm_type = "None") =>
        call.ret.data = call.x.data
                        \o <<Tok("conv", Self.t1, heap[Self.t1].w),
                             Tok("conv", Self.t2, heap[Self.t2].w)>>
                        \o call.x.data \o <<AddTok>>

C4_Witness ==
    /\ call.op = "ResBlock.forward"
    /\ call.raised = "none"
    /\ args.activation = "Identity"
    /\ args.norm_type = "None"

\* C5: with the identity as activation and no normalization, the result of
\* ResFCBlock.forward is fc2(fc1(x)) + x, x being the forward's own input.
C5_ResFCBlockSkipWiring ==
    (call.op = "ResFCBlock.forward" /\ call.raised = "none"
        /\ args.activation = "Identity" /\ args.norm_type = "None") =>
        call.ret.data = call.x.data
                        \o <<Tok("fc", Self.t1, heap[Self.t1].w),
                             Tok("fc", Self.t2, heap[Self.t2].w)>>
                        \o call.x.data \o <<AddTok>>

C5_Witness ==
    /\ call.op = "ResFCBlock.forward"
    /\ call.raised = "none"
    /\ args.activation = "Identity"
    /\ args.norm_type = "None"

\* C6: for every normalization kind, ResFCBlock2.forward returns
\* norm(fc2(fc1(x)) + x): fc1 and fc2 are built without normalization, the
\* only activation is the one inside fc1, and the block's normalization runs
\* once, last, on the sum.
C6_ResFCBlock2PostNorm ==
    (call.op = "ResFCBlock2.forward" /\ call.raised = "none") =>
        /\ heap[Self.t1].norm = "None"
        /\ heap[Self.t2].norm = "None"
        /\ heap[Self.norm].norm = NormArg(args.norm_type, "LN")
        /\ call.ret.data =
              call.x.data
              \o <<Tok("fc", Self.t1, heap[Self.t1].w)>>
              \o (IF args.activation = "Identity" THEN <<>>
                  ELSE <<Tok("ReLU", Self.act, 0)>>)
              \o <<Tok("fc", Self.t2, heap[Self.t2].w)>>
              \o call.x.data
              \o <<AddTok, Tok(NormArg(args.norm_type, "LN"), Self.norm, heap[Self.norm].w)>>

C6_Witness ==
    /\ call.op = "ResFCBlock2.forward"
    /\ call.raised = "none"
    /\ args.activation = "ReLU"
    /\ args.norm_type = "BN"

\* C7: a forward pass of any of the three blocks leaves the block and the
\* heap (the sub-blocks, their parameters) as they were; parameters change
\* only in a training step; and a forward pass repeated on the same block
\* with the same input returns what the one before it returned.
C7_ForwardLeavesStateAlone ==
    [][ /\ IsForward(call') => (blocks' = blocks /\ heap' = heap)
        /\ (\E i \in 1..Len(heap) : heap'[i] # heap[i]) => call'.op = "train"
        /\ (IsForward(call) /\ IsForward(call')
              /\ call'.blk = call.blk /\ call'.x = call.x) => call'.ret = call.ret
      ]_vars

C7_Witness ==
    /\ IsForward(call)
    /\ call.raised = "none"
    /\ heap[Self.t1].w > 0

\* C8: no operator object held by one block (its activation, its two
\* sub-blocks, its normalization operator) is held by another block.
C8_ExclusiveOwnership ==
    \A i, j \in 1..Len(blocks) :
        i # j => Held(blocks[i]) \cap Held(blocks[j]) = {}

\* C9: in ResBlock.forward and ResFCBlock.forward the operators run in the
\* order transform, normalization, activation, transform, normalization,
\* addition of the saved input, activation: two activations, none between
\* the second transform and the addition, and the activation of the sum
\* last.  (A normalization is absent when norm_type is None, and an identity
\* activation leaves no trace in the expression.)
C9_OperatorOrder ==
    (call.op \in {"ResBlock.forward", "ResFCBlock.forward"} /\ call.raised = "none") =>
        LET T == IF call.op = "ResBlock.forward" THEN <<"conv">> ELSE <<"fc">>
            N == IF args.norm_type = "None" THEN <<>> ELSE <<"BN">>
            A == IF args.activation = "Identity" THEN <<>> ELSE <<"ReLU">>
        IN  Kinds(call.ret.data) = <<"x">> \o T \o N \o A \o T \o N \o <<"x", "add">> \o A

C9_Witness ==
    /\ call.op = "ResBlock.forward"
    /\ call.raised = "none"
    /\ Kinds(call.ret.data) = <<"x", "conv", "BN", "ReLU", "conv", "BN", "x", "add", "ReLU">>

====
